---- MODULE Spec2Model ----
(***************************************************************************)
(* Model of the FastAPI project scaffolder: the project initializer        *)
(* (create_fastapi_project.py) and the service appender                    *)
(* (fastapi_service_generator.py), run one invocation at a time against a  *)
(* shared file system.  The appender runs with the project root as its     *)
(* working directory.                                                      *)
(*                                                                         *)
(* Generated text blocks are modelled by the template they come from and   *)
(* the parameters interpolated into them.  An optional value (Python None) *)
(* is the empty set, a present value v is {v}.                             *)
(***************************************************************************)
EXTENDS Integers, Sequences, FiniteSets, TLC

VARIABLES
    fs,        \* the file system under the project root
    pc,        \* position of the running invocation; "idle" between runs
    args,      \* command line of the current (or last) invocation
    port,      \* add_service_to_project's local `port`
    i,         \* main()'s loop position in args.services
    fe,        \* how the frontend step of the last init ended
    pre,       \* the file system as it was when the invocation started
    exitCode,  \* exit status of the last invocation ({} while none yet)
    reported,  \* the port printed by the appender on success
    message,   \* the error the invocation ended on: the condition it
               \* reported, or the type of the exception that ended it
    faults     \* file-system errors (permissions, disk full) raised so far

vars == <<fs, pc, args, port, i, fe, pre, exitCode, reported, message, faults>>

----------------------------------------------------------------------------
(* Bounds *)

\* longest --services list given to the initializer
MaxInitServices == 3
\* unexpected file-system errors injected along one behaviour
MaxFaults == 1

----------------------------------------------------------------------------
(* Names and the Name Deriver *)

a_x == <<"a", "_", "x">>
b_y == <<"b", "_", "y">>
c_z == <<"c", "_", "z">>

\* service names the command lines draw from
ServiceNames == {a_x, b_y, c_z}

\* explicit --port values tried on the appender's command line
ExplicitPorts == {0, 8001, 9000}

\* str.split('_')[0]: the characters before the first underscore
RECURSIVE RouteSegment(_)
RouteSegment(name) ==
    IF name = <<>> \/ Head(name) = "_"
    THEN <<>>
    ELSE <<Head(name)>> \o RouteSegment(Tail(name))

BASE_PORT == 8001

----------------------------------------------------------------------------
(* Paths and contents *)

File(dir, base, ext) == [dir |-> dir, base |-> base, ext |-> ext]

MainPy       == File("app", <<"main">>, ".py")
ConfigPy     == File("app", <<"config">>, ".py")
Requirements == File("", <<"requirements">>, ".txt")
Dockerfile   == File("", <<"Dockerfile">>, "")
RoutePy(name) == File("app/routes", RouteSegment(name), ".py")
InitPy(dir)  == File(dir, <<"__init__">>, ".py")

Content(template, service, p) ==
    [template |-> template, service |-> service, port |-> p]

EmptyContent == Content("empty", <<>>, {})

\* the service directories both generators create
ServiceDirectories ==
    <<"app/models", "app/schemas", "app/database",
      "app/services", "app/routes", "tests">>

\* create_project_structure's directory list
ProjectDirectories ==
    <<"backend/api_gateway/app/routes", "backend/api_gateway/tests",
      "backend/services", "backend/shared",
      "frontend/src/components/common", "frontend/src/components/forms",
      "frontend/src/components/auth", "frontend/src/pages",
      "frontend/src/services", "frontend/src/config",
      "frontend/public", "frontend/tests",
      "docs", "scripts", ".github/workflows">>

GatewayMarkers == <<"app/__init__.py", "tests/__init__.py">>

RootConfigFiles == <<".env.example", "docker-compose.yml", "Makefile">>

Range(s) == {s[j] : j \in 1..Len(s)}
Prefix(s, k) == {s[j] : j \in 1..k}

----------------------------------------------------------------------------
(* File-system primitives on one service tree *)

NoFiles == [p \in {} |-> EmptyContent]

AbsentTree == [kind |-> "absent", dirs |-> {}, files |-> NoFiles]
StrayFile  == [kind |-> "file", dirs |-> {}, files |-> NoFiles]

\* Path.mkdir(parents=True, exist_ok=True) below the service path
Mkdir(tree, dir) == [tree EXCEPT !.kind = "dir", !.dirs = @ \cup {dir}]

\* Path.write_text: overwrites unconditionally
WriteText(tree, path, content) ==
    [tree EXCEPT !.files =
        [q \in DOMAIN @ \cup {path} |-> IF q = path THEN content ELSE @[q]]]

\* Path.touch: creates an empty file, leaves an existing one as it is
Touch(tree, path) ==
    IF path \in DOMAIN tree.files THEN tree ELSE WriteText(tree, path, EmptyContent)

MkdirOp(dir) == [op |-> "mkdir", dir |-> dir, path |-> InitPy(dir), content |-> EmptyContent]
TouchOp(dir) == [op |-> "touch", dir |-> dir, path |-> InitPy(dir), content |-> EmptyContent]
WriteOp(path, content) == [op |-> "write", dir |-> path.dir, path |-> path, content |-> content]

ApplyOp(tree, o) ==
    CASE o.op = "mkdir" -> Mkdir(tree, o.dir)
      [] o.op = "touch" -> Touch(tree, o.path)
      [] o.op = "write" -> WriteText(tree, o.path, o.content)

\* the first k operations of ops, in order
RECURSIVE RunOps(_, _, _)
RunOps(tree, ops, k) ==
    IF k = 0 THEN tree ELSE ApplyOp(RunOps(tree, ops, k - 1), ops[k])

----------------------------------------------------------------------------
(* File manifests of the two generators *)

\* SERVICE_PORT in the initializer's settings template
InitConfigPort == 8001

MainContent(name) == Content("main", name, {})

\* FastAPIProjectGenerator._create_service_files: what it writes, in order
InitFileManifest(name) ==
    << WriteOp(MainPy, MainContent(name)),
       WriteOp(ConfigPy, Content("config_init", <<>>, {InitConfigPort})),
       WriteOp(Requirements, Content("requirements_init", <<>>, {})),
       WriteOp(Dockerfile, Content("dockerfile", <<>>, {})) >>

\* as AppendFileManifest, had the initializer's Dockerfile write been copied
AppendFileManifest_WithDockerfile(name, p) ==
    << WriteOp(MainPy, MainContent(name)),
       WriteOp(ConfigPy, Content("config_append", <<>>, {p})),
       WriteOp(RoutePy(name), Content("route", name, {})),
       WriteOp(Requirements, Content("requirements_append", <<>>, {})),
       WriteOp(Dockerfile, Content("dockerfile", <<>>, {})) >>

\* create_service_files of the appender: what it writes, in order
AppendFileManifest(name, p) ==
    << WriteOp(MainPy, MainContent(name)),
       WriteOp(ConfigPy, Content("config_append", <<>>, {p})),
       WriteOp(RoutePy(name), Content("route", name, {})),
       WriteOp(Requirements, Content("requirements_append", <<>>, {})) >>

\* create_microservice: all directories, then all markers, then the files
CreateMicroserviceOps(name) ==
    [j \in 1..Len(ServiceDirectories) |-> MkdirOp(ServiceDirectories[j])]
    \o [j \in 1..Len(ServiceDirectories) |-> TouchOp(ServiceDirectories[j])]
    \o InitFileManifest(name)

\* add_service_to_project's loop: each directory followed by its marker
AppendDirectoryOps ==
    [j \in 1..(2 * Len(ServiceDirectories)) |->
        IF j % 2 = 1 THEN MkdirOp(ServiceDirectories[(j + 1) \div 2])
                     ELSE TouchOp(ServiceDirectories[j \div 2])]

----------------------------------------------------------------------------
(* Reading the file system *)

EmptyFS ==
    [root |-> "absent", pdirs |-> {}, gateway |-> {},
     svc |-> [n \in ServiceNames |-> AbsentTree],
     rootFiles |-> {}]

\* as ProjectExists, had the check been Path.is_file()
ProjectExists_IsFile(f) == f.root = "file"

\* Path(args.project_name).exists(): follows symbolic links
ProjectExists(f) == f.root \in {"dir", "file"}

\* Path("backend/services").exists()
ServicesRootExists(f) == f.root = "dir" /\ "backend/services" \in f.pdirs

\* as ServiceExists, had the check been service_path.is_file()
ServiceExists_IsFile(f, name) == f.svc[name].kind = "file"

\* service_path.exists()
ServiceExists(f, name) == f.svc[name].kind # "absent"

\* [d for d in Path("backend/services").iterdir() if d.is_dir()]
ExistingServices(f) == {n \in ServiceNames : f.svc[n].kind = "dir"}

\* `if not port`: None and 0 are both falsy
NotPort(p) == p = {} \/ p = {0}

\* port = 8001 + len(existing_services)
NextPort(f) == BASE_PORT + Cardinality(ExistingServices(f))

\* SERVICE_PORT written in a service's settings module ({} when there is none)
ServicePort(f, name) ==
    IF ConfigPy \in DOMAIN f.svc[name].files
    THEN f.svc[name].files[ConfigPy].port
    ELSE {}

Value(opt) == CHOOSE v \in opt : TRUE

----------------------------------------------------------------------------
(* Initial state *)

NoArgs ==
    [prog |-> "none", services |-> <<>>, noFrontend |-> FALSE,
     name |-> <<>>, port |-> {}]

Init ==
    /\ fs = EmptyFS
    /\ pc = "idle"
    /\ args = NoArgs
    /\ port = {}
    /\ i = 0
    /\ fe = "not_run"
    /\ pre = EmptyFS
    /\ exitCode = {}
    /\ reported = {}
    /\ message = "none"
    /\ faults = 0

\* sys.exit(code), or the interpreter ending the run
Exit(code, msg) ==
    /\ pc' = "done"
    /\ exitCode' = {code}
    /\ message' = msg

\* an unexpected OSError may be raised while the budget lasts
MayFault == faults < MaxFaults

----------------------------------------------------------------------------
(* Project initializer: create_fastapi_project.py *)

\* --services lists: one to MaxInitServices names, no name twice
InitServiceLists ==
    {s \in UNION {[1..n -> ServiceNames] : n \in 1..MaxInitServices} :
        \A j, h \in 1..Len(s) : j # h => s[j] # s[h]}

\* main(): refuse an existing target, else construct the generator.  Only the
\* project name is read before the check; the rest of the command line is
\* recorded when the run goes on to use it.
MainInit ==
    /\ pc = "idle"
    /\ pre' = fs
    /\ IF ProjectExists(fs)
       THEN /\ Exit(1, "exists")
            /\ args' = [NoArgs EXCEPT !.prog = "init"]
       ELSE /\ pc' = "a_structure"
            /\ \E services \in InitServiceLists, noFrontend \in BOOLEAN :
                 args' = [NoArgs EXCEPT !.prog = "init", !.services = services,
                                       !.noFrontend = noFrontend]
            /\ UNCHANGED <<exitCode, message>>
    /\ i' = 1
    /\ UNCHANGED <<fs, port, fe, reported, faults>>

\* create_project_structure: mkdir(parents=True, exist_ok=True) per entry.
\* k entries are made; k below the list's length is an OSError at entry
\* k + 1, caught by main()'s `except Exception`.  A root that is a dangling
\* symbolic link makes the first mkdir raise FileExistsError.
CreateProjectStructure ==
    /\ pc = "a_structure"
    /\ IF fs.root = "symlink"
       THEN /\ Exit(1, "FileExistsError")
            /\ UNCHANGED <<fs, faults>>
       ELSE \E k \in 0..Len(ProjectDirectories), rootMade \in BOOLEAN :
            /\ k > 0 => rootMade
            /\ fs' = [fs EXCEPT !.root = IF rootMade THEN "dir" ELSE @,
                                !.pdirs = @ \cup Prefix(ProjectDirectories, k)]
            /\ IF k = Len(ProjectDirectories)
               THEN /\ pc' = "a_services"
                    /\ UNCHANGED <<exitCode, message, faults>>
               ELSE /\ MayFault
                    /\ faults' = faults + 1
                    /\ Exit(1, "OSError")
    /\ UNCHANGED <<args, port, i, fe, pre, reported>>

\* one iteration of `for service in args.services: create_microservice`
CreateMicroservice ==
    /\ pc = "a_services"
    /\ i <= Len(args.services)
    /\ LET name == args.services[i]
           ops == CreateMicroserviceOps(name)
       IN \E k \in 0..Len(ops) :
            /\ fs' = [fs EXCEPT !.svc[name] = RunOps(@, ops, k)]
            /\ IF k = Len(ops)
               THEN /\ i' = i + 1
                    /\ UNCHANGED <<pc, exitCode, message, faults>>
               ELSE /\ MayFault
                    /\ faults' = faults + 1
                    /\ Exit(1, "OSError")
                    /\ UNCHANGED i
    /\ UNCHANGED <<args, port, fe, pre, reported>>

\* main(): the gateway's two marker files
CreateGateway ==
    /\ pc = "a_services"
    /\ i > Len(args.services)
    /\ \E k \in 0..Len(GatewayMarkers) :
            /\ fs' = [fs EXCEPT !.gateway = @ \cup Prefix(GatewayMarkers, k)]
            /\ IF k = Len(GatewayMarkers)
               THEN /\ pc' = IF args.noFrontend THEN "a_config" ELSE "a_frontend"
                    /\ UNCHANGED <<exitCode, message, faults>>
               ELSE /\ MayFault
                    /\ faults' = faults + 1
                    /\ Exit(1, "OSError")
    /\ UNCHANGED <<args, port, i, fe, pre, reported>>

\* the executables create_react_frontend runs, in order
FrontendCalls == <<"node", "npx", "npm", "npm", "npx">>

\* what the machine offers: executables not installed, and the call (0: none)
\* whose process exits non-zero
FrontendEnvs ==
    [missing : SUBSET Range(FrontendCalls), failAt : 0..Len(FrontendCalls)]

CallFails(env, j) == FrontendCalls[j] \in env.missing \/ env.failAt = j

\* the first call that does not succeed (one past the last when all do)
FirstFailure(env) ==
    IF \E j \in 1..Len(FrontendCalls) : CallFails(env, j)
    THEN CHOOSE j \in 1..Len(FrontendCalls) :
            /\ CallFails(env, j)
            /\ \A h \in 1..(j - 1) : ~CallFails(env, h)
    ELSE Len(FrontendCalls) + 1

\* create_react_frontend: the node probe catches CalledProcessError and
\* FileNotFoundError; the package-manager calls catch CalledProcessError only
FrontendOutcome(env) ==
    LET j == FirstFailure(env)
        isMissing == j <= Len(FrontendCalls) /\ FrontendCalls[j] \in env.missing
    IN  IF j > Len(FrontendCalls) THEN [fe |-> "ok", raised |-> FALSE]
        ELSE IF j = 1
             THEN [fe |-> IF isMissing THEN "runtime_missing" ELSE "runtime_nonzero",
                   raised |-> FALSE]
             ELSE IF isMissing
                  THEN [fe |-> "pm_missing", raised |-> TRUE]
                  ELSE [fe |-> "pm_nonzero", raised |-> FALSE]

\* `if not args.no_frontend: generator.create_react_frontend()`; the return
\* value is dropped, an exception reaches main()'s `except Exception`
CreateReactFrontend ==
    /\ pc = "a_frontend"
    /\ \E env \in FrontendEnvs :
         LET out == FrontendOutcome(env)
         IN /\ fe' = out.fe
            /\ fs' = fs
            /\ IF out.raised
               THEN Exit(1, "FileNotFoundError")
               ELSE /\ pc' = "a_config"
                    /\ UNCHANGED <<exitCode, message>>
    /\ UNCHANGED <<args, port, i, pre, reported, faults>>

\* create_config_files, then the summary: the run ends with status 0
CreateConfigFiles ==
    /\ pc = "a_config"
    /\ \E k \in 0..Len(RootConfigFiles) :
            /\ fs' = [fs EXCEPT !.rootFiles = @ \cup Prefix(RootConfigFiles, k)]
            /\ IF k = Len(RootConfigFiles)
               THEN /\ Exit(0, "none")
                    /\ UNCHANGED faults
               ELSE /\ MayFault
                    /\ faults' = faults + 1
                    /\ Exit(1, "OSError")
    /\ UNCHANGED <<args, port, i, fe, pre, reported>>

----------------------------------------------------------------------------
(* Service appender: fastapi_service_generator.py *)

PortArguments == {{}} \cup {{v} : v \in ExplicitPorts}

\* main(): add-service <service_name> [--port N], run in the project root;
\* `if not Path("backend/services").exists(): sys.exit(1)`
MainAddService(name) ==
    /\ pc = "idle"
    /\ fs.root = "dir"
    /\ args' = [NoArgs EXCEPT !.prog = "append", !.name = name]
    /\ pre' = fs
    /\ IF ~ServicesRootExists(fs)
       THEN Exit(1, "not_project")
       ELSE /\ pc' = "b_check_name"
            /\ UNCHANGED <<exitCode, message>>
    /\ UNCHANGED <<fs, port, i, fe, reported, faults>>

\* `if service_path.exists(): sys.exit(1)`
CheckName ==
    /\ pc = "b_check_name"
    /\ IF ServiceExists(fs, args.name)
       THEN Exit(1, "already_exists")
       ELSE /\ pc' = "b_dirs"
            /\ UNCHANGED <<exitCode, message>>
    /\ UNCHANGED <<fs, args, port, i, fe, pre, reported, faults>>

\* the directory loop; an OSError is not caught and ends the run with status 1
MakeServiceDirectories ==
    /\ pc = "b_dirs"
    /\ \E k \in 0..Len(AppendDirectoryOps) :
            /\ fs' = [fs EXCEPT !.svc[args.name] = RunOps(@, AppendDirectoryOps, k)]
            /\ IF k = Len(AppendDirectoryOps)
               THEN /\ pc' = "b_port"
                    /\ UNCHANGED <<exitCode, message, faults>>
               ELSE /\ MayFault
                    /\ faults' = faults + 1
                    /\ Exit(1, "OSError")
    /\ UNCHANGED <<args, port, i, fe, pre, reported>>

\* `if not port: port = 8001 + len(existing_services)`; the --port argument
\* (absent, or an integer) is first read here
DeterminePort ==
    /\ pc = "b_port"
    /\ \E p \in PortArguments :
         /\ args' = [args EXCEPT !.port = p]
         /\ port' = IF NotPort(p) THEN {NextPort(fs)} ELSE p
    /\ pc' = "b_files"
    /\ UNCHANGED <<fs, i, fe, pre, exitCode, reported, message, faults>>

\* create_service_files, then the success messages with the port
CreateServiceFiles ==
    /\ pc = "b_files"
    /\ LET ops == AppendFileManifest(args.name, Value(port))
       IN \E k \in 0..Len(ops) :
            /\ fs' = [fs EXCEPT !.svc[args.name] = RunOps(@, ops, k)]
            /\ IF k = Len(ops)
               THEN /\ reported' = port
                    /\ Exit(0, "none")
                    /\ UNCHANGED faults
               ELSE /\ MayFault
                    /\ faults' = faults + 1
                    /\ Exit(1, "OSError")
                    /\ UNCHANGED reported
    /\ UNCHANGED <<args, port, i, fe, pre>>

----------------------------------------------------------------------------
(* The user, between invocations *)

\* the process is gone: its command line, locals and output with it
Return ==
    /\ pc = "done"
    /\ pc' = "idle"
    /\ args' = NoArgs
    /\ port' = {}
    /\ i' = 0
    /\ fe' = "not_run"
    /\ pre' = EmptyFS
    /\ exitCode' = {}
    /\ reported' = {}
    /\ message' = "none"
    /\ UNCHANGED <<fs, faults>>

\* rm -rf backend/services/<name>
RemoveService(name) ==
    /\ pc = "idle"
    /\ fs.svc[name].kind # "absent"
    /\ fs' = [fs EXCEPT !.svc[name] = AbsentTree]
    /\ UNCHANGED <<pc, args, port, i, fe, pre, exitCode, reported, message, faults>>

\* a regular file dropped into backend/services
PlaceStrayFile(name) ==
    /\ pc = "idle"
    /\ ServicesRootExists(fs)
    /\ fs.svc[name].kind = "absent"
    /\ fs' = [fs EXCEPT !.svc[name] = StrayFile]
    /\ UNCHANGED <<pc, args, port, i, fe, pre, exitCode, reported, message, faults>>

\* something other than a directory where the project is to go
PlaceRootEntry(kind) ==
    /\ pc = "idle"
    /\ fs.root = "absent"
    /\ fs' = [fs EXCEPT !.root = kind]
    /\ UNCHANGED <<pc, args, port, i, fe, pre, exitCode, reported, message, faults>>

\* rm -rf <project>
RemoveProject ==
    /\ pc = "idle"
    /\ fs.root # "absent"
    /\ fs' = EmptyFS
    /\ UNCHANGED <<pc, args, port, i, fe, pre, exitCode, reported, message, faults>>

----------------------------------------------------------------------------

Next ==
    \/ MainInit
    \/ CreateProjectStructure
    \/ CreateMicroservice
    \/ CreateGateway
    \/ CreateReactFrontend
    \/ CreateConfigFiles
    \/ \E name \in ServiceNames : MainAddService(name)
    \/ CheckName
    \/ MakeServiceDirectories
    \/ DeterminePort
    \/ CreateServiceFiles
    \/ Return
    \/ \E name \in ServiceNames : RemoveService(name)
    \/ \E name \in ServiceNames : PlaceStrayFile(name)
    \/ \E kind \in {"file", "symlink"} : PlaceRootEntry(kind)
    \/ RemoveProject

Spec == Init /\ [][Next]_vars

----------------------------------------------------------------------------
(* Properties *)

InitRun   == args.prog = "init"
AppendRun == args.prog = "append"
Ended     == pc = "done"
Succeeded == pc = "done" /\ exitCode = {0}

\* the generated (non-marker) files of a service tree
GeneratedFiles(tree) ==
    {p \in DOMAIN tree.files : tree.files[p].template # "empty"}

\* the services that hold a port: directories with a settings module
PortHolders(f) ==
    {n \in ServiceNames : f.svc[n].kind = "dir" /\ ServicePort(f, n) # {}}

\* C1: whenever the initializer, or the appender run without an explicit
\* port, writes a service's settings module, the SERVICE_PORT it writes
\* differs from the port of every sibling service directory on disk at that
\* moment.
C1_UniquePortAtCreation ==
    [][\A n \in ServiceNames :
          ( /\ InitRun \/ (AppendRun /\ args.port = {})
            /\ ServicePort(fs, n) = {}
            /\ ServicePort(fs', n) # {} )
          => \A m \in PortHolders(fs') \ {n} :
                ServicePort(fs', m) # ServicePort(fs', n)]_vars

\* C2: after a successful initialisation the i-th service of the list has
\* SERVICE_PORT 8001 + (i - 1) in its settings module.
C2_InitPortsInListOrder ==
    (InitRun /\ Succeeded) =>
        \A j \in 1..Len(args.services) :
            ServicePort(fs, args.services[j]) = {BASE_PORT + (j - 1)}

\* C3: a successful append without an explicit port, to a project that held
\* n service directories before the call, assigns port 8001 + n.
C3_AppendPortCountsPriorServices ==
    (AppendRun /\ Succeeded /\ args.port = {}) =>
        /\ ServicePort(fs, args.name)
              = {BASE_PORT + Cardinality(ExistingServices(pre))}
        /\ reported = ServicePort(fs, args.name)

\* C4: an append whose service name was already a directory under the
\* services root never gets past the name check, ends with exit code 1 and
\* "already exists", and leaves the whole file system as it was.
C4_DuplicateNameRejected ==
    (AppendRun /\ pc # "idle" /\ pre.svc[args.name].kind = "dir") =>
        /\ fs = pre
        /\ pc \in {"b_check_name", "done"}
        /\ Ended => (exitCode = {1} /\ message = "already_exists")

C4_Witness ==
    /\ AppendRun /\ Ended
    /\ pre.svc[args.name].kind = "dir"
    /\ GeneratedFiles(pre.svc[args.name]) # {}
    /\ exitCode = {1}

\* C5: an initialisation whose target root already existed (as a directory,
\* a file or a dangling link, a partial tree of an aborted run included)
\* changes nothing on disk and ends with exit code 1.
C5_ExistingTargetRejected ==
    (InitRun /\ pc # "idle" /\ pre.root # "absent") =>
        /\ fs = pre
        /\ pc \in {"a_structure", "done"}
        /\ Ended => exitCode = {1}

\* a tree an aborted initialisation left behind
PartialTree(f) ==
    /\ f.root = "dir"
    /\ f.rootFiles # Range(RootConfigFiles)

C5_Witness ==
    /\ InitRun /\ Ended
    /\ PartialTree(pre)
    /\ faults > 0
    /\ exitCode = {1}

\* C6: the appender checks the services directory, then the service name,
\* mutates nothing before both checks pass, and allocates the port before
\* any directory or file of the new service is created.
C6_AppenderStepOrder ==
    AppendRun =>
        /\ message = "not_project" => (exitCode = {1} /\ fs = pre)
        /\ pc = "b_check_name" => (fs = pre /\ ServicesRootExists(pre))
        /\ message = "already_exists" =>
              (exitCode = {1} /\ fs = pre /\ ServicesRootExists(pre))
        /\ pc = "b_dirs" => (fs = pre /\ ~ServiceExists(pre, args.name))
        /\ pc = "b_port" => fs.svc[args.name] = pre.svc[args.name]

\* C7: a successful append given an explicit port writes exactly that port
\* to the settings module and reports it.
C7_ExplicitPortUsedAsIs ==
    (AppendRun /\ Succeeded /\ args.port # {}) =>
        /\ ServicePort(fs, args.name) = args.port
        /\ reported = args.port

FrontendFailures ==
    {"runtime_missing", "runtime_nonzero", "pm_missing", "pm_nonzero"}

\* C8: an initialisation whose frontend step met an environment failure,
\* and no file-system error, still writes the three root-level
\* configuration files and exits 0.
C8_FrontendFailureDegrades ==
    (InitRun /\ Ended /\ fe \in FrontendFailures /\ message # "OSError") =>
        /\ exitCode = {0}
        /\ fs.rootFiles = Range(RootConfigFiles)

\* the files the generated-content contract names for a service
ServiceFileSet(name) == {MainPy, ConfigPy, RoutePy(name), Requirements}

\* C9: either entry point, on success, has written for each of its services
\* the entrypoint, the settings module, the route stub the entrypoint
\* imports and requirements.txt; the initializer a Dockerfile besides.
C9_SameGeneratedFileSet ==
    /\ (InitRun /\ Succeeded) =>
          \A n \in Range(args.services) :
             GeneratedFiles(fs.svc[n]) = ServiceFileSet(n) \cup {Dockerfile}
    /\ (AppendRun /\ Succeeded) =>
          GeneratedFiles(fs.svc[args.name]) = ServiceFileSet(args.name)

\* C10: an append, successful or failed, changes nothing outside the new
\* service's own directory (root-level files, project directories, gateway
\* and sibling services stay as they were) and writes no Dockerfile.
C10_AppenderFrame ==
    (AppendRun /\ pc # "idle") =>
        /\ [fs EXCEPT !.svc[args.name] = pre.svc[args.name]] = pre
        /\ Dockerfile \in DOMAIN fs.svc[args.name].files
              => Dockerfile \in DOMAIN pre.svc[args.name].files

C10_Witness ==
    /\ AppendRun /\ Succeeded
    /\ fs.svc[args.name] # pre.svc[args.name]
    /\ pre.rootFiles = Range(RootConfigFiles)
    /\ \E m \in ServiceNames \ {args.name} : pre.svc[m].kind = "dir"

====
